---- MODULE Spec2Model ----
(***************************************************************************)
(* Model of MediaBookServer (src/src/setupServer.ts): the synchronous      *)
(* registration sequence of start(), the asynchronous gateway start-up of  *)
(* startServer()/createSocteIO(), and the traversal of one HTTP request    *)
(* through the middleware stack that start() registered.                   *)
(***************************************************************************)
EXTENDS Integers, Sequences, FiniteSets, TLC

VARIABLES
    nodeEnv,        \* config.NODE_ENV of this process
    state,          \* bootstrap state reached by start()/startServer()
    history,        \* sequence of bootstrap states entered so far
    stack,          \* app's middleware stack, in registration order
    sessionOptions, \* options object handed to cookieSession()
    client,         \* pubClient / subCliend connection state
    connectCalls,   \* number of connect() calls made on each client
    adapter,        \* TRUE once io.adapter(createAdapter(..)) has run
    listenCalls,    \* number of httpServer.listen() calls
    port,           \* port handed to httpServer.listen()
    bound,          \* outcome of the asynchronous bind started by listen()
    log,            \* entries written by the bootstrap to the 'server' logger
    unhandled,      \* errors that no handler of this file received
    req,            \* the request in flight (NoReq when none)
    idx,            \* index in stack of the next layer to try
    err,            \* error carried by the request through next(err)
    raised,         \* error raised for the request in flight (NoErr when none)
    visited,        \* layers that ran for the request in flight, in order
    res,            \* the response of the request in flight
    errorLogged,    \* number of log.error calls made for the request in flight
    served          \* number of requests received so far

vars == <<nodeEnv, state, history, stack, sessionOptions, client, connectCalls,
          adapter, listenCalls, port, bound, log, unhandled,
          req, idx, err, raised, visited, res, errorLogged, served>>

bootVars == <<state, history, stack, sessionOptions, client, connectCalls,
              adapter, listenCalls, port, bound, log, unhandled>>

reqVars == <<req, idx, err, raised, visited, res, errorLogged, served>>

----------------------------------------------------------------------------
(* Bounds and program constants *)

MaxRequests == 2

SERVER_PORT == 5000

NOT_FOUND == 404

OptionsSuccessStatus == 200

\* Values config.NODE_ENV can take; "<unset>" stands for an undefined variable.
NodeEnvs == {"development", "production", "test", "<unset>"}

Methods == {"GET", "POST", "OPTIONS"}

Urls == {"/api/v1/posts", "/nope", "/nope?x=1"}

----------------------------------------------------------------------------
(* securityMiddleware, standarMiddleware, routesMiddleware,
   globalErrorHandler: what each registers on the application *)

CookieSessionOptionsSecureInProductionOnly(env) ==
    [name   |-> "session",
     keys   |-> <<"SECRET_KEY_ONE", "SECRET_KEY_TWO">>,
     maxAge |-> 24 * 7 * 3600000,
     secure |-> (env = "production")]

CookieSessionOptions(env) ==
    [name   |-> "session",
     keys   |-> <<"SECRET_KEY_ONE", "SECRET_KEY_TWO">>,
     maxAge |-> 24 * 7 * 3600000,
     secure |-> (env # "development")]

SecurityLayersCorsFirst == <<"cors", "cookieSession", "hpp", "helmet">>

SecurityLayers == <<"cookieSession", "hpp", "helmet", "cors">>

StandardLayers == <<"compression", "json", "urlencoded">>

RouteLayers == <<"routes">>

ErrorBoundaryLayers == <<"notFound", "errorHandler">>

\* Routes bound by applicationRoutes(app) (./routes).
RegisteredRoutes == {<<"GET", "/api/v1/posts">>, <<"POST", "/api/v1/posts">>}

\* Errors a route handler can raise: instances of CustomError, and others.
CustomErrors ==
    {[kind |-> "CustomError", statusCode |-> 400, status |-> "error",
      message |-> "Validation error"],
     [kind |-> "CustomError", statusCode |-> 401, status |-> "error",
      message |-> "Token is not available"]}

UnclassifiedErrors == {[kind |-> "Error", message |-> "boom"]}

BodyParseError == [kind |-> "SyntaxError", message |-> "Unexpected token"]

NoErr == [kind |-> "none", message |-> ""]

\* CustomError.serializeErrors() (./shared/globals/helpers/error_handler).
serializeErrors(e) ==
    [message |-> e.message, status |-> e.status, statusCode |-> e.statusCode]

NoReq == [method |-> "-", originalUrl |-> "-", bodyOK |-> TRUE]

NoRes == [sent |-> FALSE, status |-> 0, body |-> [message |-> ""], by |-> "-"]

Enter(s) == /\ state' = s
            /\ history' = Append(history, s)

----------------------------------------------------------------------------
Init ==
    /\ nodeEnv \in NodeEnvs
    /\ state = "Idle"
    /\ history = <<"Idle">>
    /\ stack = <<>>
    /\ sessionOptions = [name |-> "", keys |-> <<>>, maxAge |-> 0, secure |-> FALSE]
    /\ client = [pub |-> "new", sub |-> "new"]
    /\ connectCalls = [pub |-> 0, sub |-> 0]
    /\ adapter = FALSE
    /\ listenCalls = 0
    /\ port = 0
    /\ bound = "none"
    /\ log = <<>>
    /\ unhandled = {}
    /\ req = NoReq
    /\ idx = 0
    /\ err = NoErr
    /\ raised = NoErr
    /\ visited = <<>>
    /\ res = NoRes
    /\ errorLogged = 0
    /\ served = 0

----------------------------------------------------------------------------
(* start(): the four synchronous registrations, in call order *)

securityMiddleware ==
    /\ state = "Idle"
    /\ sessionOptions' = CookieSessionOptions(nodeEnv)
    /\ stack' = stack \o SecurityLayers
    /\ Enter("SecurityConfigured")
    /\ UNCHANGED <<nodeEnv, client, connectCalls, adapter, listenCalls, port,
                   bound, log, unhandled>>
    /\ UNCHANGED reqVars

standarMiddleware ==
    /\ state = "SecurityConfigured"
    /\ stack' = stack \o StandardLayers
    /\ Enter("PipelineConfigured")
    /\ UNCHANGED <<nodeEnv, sessionOptions, client, connectCalls, adapter,
                   listenCalls, port, bound, log, unhandled>>
    /\ UNCHANGED reqVars

routesMiddleware ==
    /\ state = "PipelineConfigured"
    /\ stack' = stack \o RouteLayers
    /\ Enter("RoutesBound")
    /\ UNCHANGED <<nodeEnv, sessionOptions, client, connectCalls, adapter,
                   listenCalls, port, bound, log, unhandled>>
    /\ UNCHANGED reqVars

globalErrorHandler ==
    /\ state = "RoutesBound"
    /\ stack' = stack \o ErrorBoundaryLayers
    /\ Enter("ErrorBoundaryBound")
    /\ UNCHANGED <<nodeEnv, sessionOptions, client, connectCalls, adapter,
                   listenCalls, port, bound, log, unhandled>>
    /\ UNCHANGED reqVars

----------------------------------------------------------------------------
(* startServer() / createSocteIO() / startHttpServer() *)

\* startServer up to the await inside createSocteIO: both clients are created
\* and connect() is called once on each.
startServer ==
    /\ state = "ErrorBoundaryBound"
    /\ client' = [pub |-> "connecting", sub |-> "connecting"]
    /\ connectCalls' = [c \in {"pub", "sub"} |-> connectCalls[c] + 1]
    /\ Enter("GatewayStarting")
    /\ UNCHANGED <<nodeEnv, stack, sessionOptions, adapter, listenCalls, port,
                   bound, log, unhandled>>
    /\ UNCHANGED reqVars

\* The promise returned by connect() on client c resolves.
ConnectResolved(c) ==
    /\ client[c] = "connecting"
    /\ client' = [client EXCEPT ![c] = "connected"]
    /\ UNCHANGED <<nodeEnv, state, history, stack, sessionOptions, connectCalls,
                   adapter, listenCalls, port, bound, log, unhandled>>
    /\ UNCHANGED reqVars

\* The promise returned by connect() on client c rejects.
ConnectRejected(c) ==
    /\ client[c] = "connecting"
    /\ client' = [client EXCEPT ![c] = "failed"]
    /\ UNCHANGED <<nodeEnv, state, history, stack, sessionOptions, connectCalls,
                   adapter, listenCalls, port, bound, log, unhandled>>
    /\ UNCHANGED reqVars

\* As if the await were on the first connect() to resolve.
AllConnectedAny == \E c \in {"pub", "sub"} : client[c] = "connected"

\* Promise.all([...]) is fulfilled: every connect() resolved.
AllConnected == \A c \in {"pub", "sub"} : client[c] = "connected"

\* Promise.all([...]) is rejected: some connect() rejected.
SomeRejected == \E c \in {"pub", "sub"} : client[c] = "failed"

\* createSocteIO resumes after the await: io.adapter(createAdapter(..)).
createSocteIO ==
    /\ state = "GatewayStarting"
    /\ ~adapter
    /\ AllConnected
    /\ adapter' = TRUE
    /\ UNCHANGED <<nodeEnv, state, history, stack, sessionOptions, client,
                   connectCalls, listenCalls, port, bound, log, unhandled>>
    /\ UNCHANGED reqVars

\* As if createSocteIO were called without await.
startHttpServerNoAwait ==
    /\ state = "GatewayStarting"
    /\ log' = Append(log, [level |-> "info", msg |-> "Server started with process"])
    /\ listenCalls' = listenCalls + 1
    /\ port' = SERVER_PORT
    /\ bound' = "pending"
    /\ Enter("Listening")
    /\ UNCHANGED <<nodeEnv, stack, sessionOptions, client, connectCalls,
                   adapter, unhandled>>
    /\ UNCHANGED reqVars

\* startServer resumes with the gateway: startHttpServer(httpServer).
startHttpServer ==
    /\ state = "GatewayStarting"
    /\ adapter
    /\ log' = Append(log, [level |-> "info", msg |-> "Server started with process"])
    /\ listenCalls' = listenCalls + 1
    /\ port' = SERVER_PORT
    /\ bound' = "pending"
    /\ Enter("Listening")
    /\ UNCHANGED <<nodeEnv, stack, sessionOptions, client, connectCalls,
                   adapter, unhandled>>
    /\ UNCHANGED reqVars

\* As if startHttpServer were called after the try/catch statement.
startServerCatchAndListen ==
    /\ state = "GatewayStarting"
    /\ ~adapter
    /\ SomeRejected
    /\ log' = Append(log, [level |-> "error", msg |-> "connect failed"])
    /\ listenCalls' = listenCalls + 1
    /\ port' = SERVER_PORT
    /\ bound' = "pending"
    /\ Enter("Failed")
    /\ UNCHANGED <<nodeEnv, stack, sessionOptions, client, connectCalls,
                   adapter, unhandled>>
    /\ UNCHANGED reqVars

\* startServer's catch: the await threw because Promise.all rejected.
startServerCatch ==
    /\ state = "GatewayStarting"
    /\ ~adapter
    /\ SomeRejected
    /\ log' = Append(log, [level |-> "error", msg |-> "connect failed"])
    /\ Enter("Failed")
    /\ UNCHANGED <<nodeEnv, stack, sessionOptions, client, connectCalls,
                   adapter, listenCalls, port, bound, unhandled>>
    /\ UNCHANGED reqVars

\* The listen callback: the port is bound.
ListenCallback ==
    /\ bound = "pending"
    /\ bound' = "bound"
    /\ log' = Append(log, [level |-> "info", msg |-> "Server running on port"])
    /\ UNCHANGED <<nodeEnv, state, history, stack, sessionOptions, client,
                   connectCalls, adapter, listenCalls, port, unhandled>>
    /\ UNCHANGED reqVars

\* As if the listen call were followed by .on('error', e => log.error(e)).
ListenErrorLogged ==
    /\ bound = "pending"
    /\ bound' = "error"
    /\ log' = Append(log, [level |-> "error", msg |-> "listen failed"])
    /\ UNCHANGED <<nodeEnv, state, history, stack, sessionOptions, client,
                   connectCalls, adapter, listenCalls, port, unhandled>>
    /\ UNCHANGED reqVars

\* The bind fails: listen() has already returned, the server emits 'error',
\* and startHttpServer registered no listener for it.
ListenError ==
    /\ bound = "pending"
    /\ bound' = "error"
    /\ unhandled' = unhandled \cup {"listen failed"}
    /\ UNCHANGED <<nodeEnv, state, history, stack, sessionOptions, client,
                   connectCalls, adapter, listenCalls, port, log>>
    /\ UNCHANGED reqVars

----------------------------------------------------------------------------
(* One HTTP request through the stack.  A layer without an error parameter
   runs only while no error is pending, the four-parameter handler only
   while one is; "routes" runs only for a registered method and path. *)

InFlight == req # NoReq /\ ~res.sent

AtLayer(name) == /\ InFlight
                 /\ idx <= Len(stack)
                 /\ stack[idx] = name

Applies(name) ==
    IF name = "errorHandler" THEN err # NoErr
    ELSE IF name = "routes"
         THEN err = NoErr /\ <<req.method, req.originalUrl>> \in RegisteredRoutes
         ELSE err = NoErr

\* The accepted connection hands a request to the application.
Receive ==
    /\ bound = "bound"
    /\ req = NoReq \/ res.sent
    /\ served < MaxRequests
    /\ \E m \in Methods, u \in Urls, ok \in BOOLEAN :
          req' = [method |-> m, originalUrl |-> u, bodyOK |-> ok]
    /\ idx' = 1
    /\ err' = NoErr
    /\ raised' = NoErr
    /\ visited' = <<>>
    /\ res' = NoRes
    /\ errorLogged' = 0
    /\ served' = served + 1
    /\ UNCHANGED nodeEnv
    /\ UNCHANGED bootVars

\* The layer at idx does not apply to the request: the router moves on.
SkipLayer ==
    /\ InFlight
    /\ idx <= Len(stack)
    /\ ~Applies(stack[idx])
    /\ idx' = idx + 1
    /\ UNCHANGED <<req, err, raised, visited, res, errorLogged, served, nodeEnv>>
    /\ UNCHANGED bootVars

\* A layer that does its work and calls next().
PassThrough(name) ==
    /\ AtLayer(name)
    /\ Applies(name)
    /\ visited' = Append(visited, name)
    /\ idx' = idx + 1
    /\ UNCHANGED <<req, err, raised, res, errorLogged, served, nodeEnv>>
    /\ UNCHANGED bootVars

cookieSession == PassThrough("cookieSession")

hpp == PassThrough("hpp")

helmet == PassThrough("helmet")

compression == PassThrough("compression")

urlencoded == PassThrough("urlencoded")

\* cors({... optionsSuccessStatus: 200 ...}): an OPTIONS request is answered
\* by the stage itself, any other request is passed on.
cors ==
    /\ AtLayer("cors")
    /\ Applies("cors")
    /\ visited' = Append(visited, "cors")
    /\ IF req.method = "OPTIONS"
       THEN /\ res' = [sent |-> TRUE, status |-> OptionsSuccessStatus,
                       body |-> [message |-> ""], by |-> "cors"]
            /\ idx' = idx
       ELSE /\ res' = res
            /\ idx' = idx + 1
    /\ UNCHANGED <<req, err, raised, errorLogged, served, nodeEnv>>
    /\ UNCHANGED bootVars

\* json({ limit: '50mb' }): a body that cannot be parsed is passed to next(err).
json ==
    /\ AtLayer("json")
    /\ Applies("json")
    /\ visited' = Append(visited, "json")
    /\ err' = IF req.bodyOK THEN err ELSE BodyParseError
    /\ raised' = err'
    /\ idx' = idx + 1
    /\ UNCHANGED <<req, res, errorLogged, served, nodeEnv>>
    /\ UNCHANGED bootVars

\* A registered route handler: it writes a success response, or it throws
\* (or rejects with) an error, which express-async-errors passes to next(err).
routes ==
    /\ AtLayer("routes")
    /\ Applies("routes")
    /\ visited' = Append(visited, "routes")
    /\ \/ /\ res' = [sent |-> TRUE, status |-> 200,
                     body |-> [message |-> "ok"], by |-> "routes"]
          /\ UNCHANGED <<err, raised, idx>>
       \/ /\ \E e \in CustomErrors \cup UnclassifiedErrors : err' = e
          /\ raised' = err'
          /\ idx' = idx + 1
          /\ UNCHANGED res
    /\ UNCHANGED <<req, errorLogged, served, nodeEnv>>
    /\ UNCHANGED bootVars

\* As if the not-found handler echoed a fixed message.
notFoundFixedMessage ==
    /\ AtLayer("notFound")
    /\ Applies("notFound")
    /\ visited' = Append(visited, "notFound")
    /\ res' = [sent |-> TRUE, status |-> NOT_FOUND,
               body |-> [message |-> "not found"], by |-> "notFound"]
    /\ UNCHANGED <<req, idx, err, raised, errorLogged, served, nodeEnv>>
    /\ UNCHANGED bootVars

\* app.all('*', ...): every method and every path.
notFound ==
    /\ AtLayer("notFound")
    /\ Applies("notFound")
    /\ visited' = Append(visited, "notFound")
    /\ res' = [sent |-> TRUE, status |-> NOT_FOUND,
               body |-> [message |-> req.originalUrl \o " not found"],
               by |-> "notFound"]
    /\ UNCHANGED <<req, idx, err, raised, errorLogged, served, nodeEnv>>
    /\ UNCHANGED bootVars

\* As if the handler answered a CustomError with a fixed status 500.
errorHandlerFixedStatus ==
    /\ AtLayer("errorHandler")
    /\ Applies("errorHandler")
    /\ visited' = Append(visited, "errorHandler")
    /\ errorLogged' = errorLogged + 1
    /\ IF err.kind = "CustomError"
       THEN /\ res' = [sent |-> TRUE, status |-> 500,
                       body |-> serializeErrors(err), by |-> "errorHandler"]
            /\ UNCHANGED <<err, idx>>
       ELSE /\ err' = NoErr
            /\ idx' = idx + 1
            /\ UNCHANGED res
    /\ UNCHANGED <<req, raised, served, nodeEnv>>
    /\ UNCHANGED bootVars

\* app.use((error, _req, res, next) => ...): log.error, then either the
\* CustomError's own response, or next() with no argument, which drops the
\* error and lets the router go on to the layers after this one.
errorHandler ==
    /\ AtLayer("errorHandler")
    /\ Applies("errorHandler")
    /\ visited' = Append(visited, "errorHandler")
    /\ errorLogged' = errorLogged + 1
    /\ IF err.kind = "CustomError"
       THEN /\ res' = [sent |-> TRUE, status |-> err.statusCode,
                       body |-> serializeErrors(err), by |-> "errorHandler"]
            /\ UNCHANGED <<err, idx>>
       ELSE /\ err' = NoErr
            /\ idx' = idx + 1
            /\ UNCHANGED res
    /\ UNCHANGED <<req, raised, served, nodeEnv>>
    /\ UNCHANGED bootVars

\* The stack is exhausted without a response: the framework's own final
\* handler answers (404 when no error is pending, 500 otherwise).
finalHandler ==
    /\ InFlight
    /\ idx > Len(stack)
    /\ visited' = Append(visited, "finalhandler")
    /\ res' = [sent |-> TRUE,
               status |-> IF err = NoErr THEN 404 ELSE 500,
               body |-> [message |-> "Cannot " \o req.method \o " " \o req.originalUrl],
               by |-> "finalhandler"]
    /\ UNCHANGED <<req, idx, err, raised, errorLogged, served, nodeEnv>>
    /\ UNCHANGED bootVars

----------------------------------------------------------------------------
Next ==
    \/ securityMiddleware
    \/ standarMiddleware
    \/ routesMiddleware
    \/ globalErrorHandler
    \/ startServer
    \/ \E c \in {"pub", "sub"} : ConnectResolved(c)
    \/ \E c \in {"pub", "sub"} : ConnectRejected(c)
    \/ createSocteIO
    \/ startHttpServer
    \/ startServerCatch
    \/ ListenCallback
    \/ ListenError
    \/ Receive
    \/ SkipLayer
    \/ cookieSession
    \/ hpp
    \/ helmet
    \/ cors
    \/ compression
    \/ json
    \/ urlencoded
    \/ routes
    \/ notFound
    \/ errorHandler
    \/ finalHandler

Spec == Init /\ [][Next]_vars

----------------------------------------------------------------------------
(* Properties *)

Range(q) == {q[i] : i \in 1..Len(q)}

IsPrefix(p, q) == /\ Len(p) <= Len(q)
                  /\ \A i \in 1..Len(p) : p[i] = q[i]

ErrorEntries(l) == Cardinality({i \in 1..Len(l) : l[i].level = "error"})

BothConnected == client.pub = "connected" /\ client.sub = "connected"

EitherFailed == client.pub = "failed" \/ client.sub = "failed"

\* C1: the adapter is attached to the gateway only when both the publish and
\* the subscribe connection have completed connect(); while only one of them
\* has connected, the adapter is not attached.
AdapterAfterBothConnected == adapter => BothConnected

AdapterAttachedWitness == adapter /\ BothConnected /\ state = "GatewayStarting"

\* C2: a request whose error is not a CustomError is logged once and is
\* answered by the error handler itself with a generic failure status; the
\* framework's final handler never runs for it.
UnclassifiedAnsweredByHandler ==
    (res.sent /\ raised.kind \notin {"none", "CustomError"})
        => /\ errorLogged = 1
           /\ res.by = "errorHandler"
           /\ res.status = 500
           /\ "finalhandler" \notin Range(visited)

\* C3: a CustomError with statusCode s raised by route dispatch is logged
\* exactly once and answered by the error handler with status s and the body
\* of serializeErrors(), without next being called; statusCode 400 with
\* message "Validation error" gives status 400 and that message in the body.
CustomErrorResponse ==
    (res.sent /\ "routes" \in Range(visited) /\ raised.kind = "CustomError")
        => /\ errorLogged = 1
           /\ res.by = "errorHandler"
           /\ res.status = raised.statusCode
           /\ res.body = [message |-> raised.message, status |-> raised.status,
                          statusCode |-> raised.statusCode]
           /\ visited[Len(visited)] = "errorHandler"
           /\ idx <= Len(stack) /\ stack[idx] = "errorHandler"
           /\ (raised.statusCode = 400 /\ raised.message = "Validation error")
                 => (res.status = 400 /\ res.body.message = "Validation error")

CustomErrorWitness ==
    /\ res.sent
    /\ raised.kind = "CustomError"
    /\ raised.statusCode = 400
    /\ raised.message = "Validation error"
    /\ res.by = "errorHandler"

Unmatched == req # NoReq /\ <<req.method, req.originalUrl>> \notin RegisteredRoutes

NotFoundResponse ==
    /\ res.status = 404
    /\ res.body = [message |-> req.originalUrl \o " not found"]
    /\ "errorHandler" \notin Range(visited)
    /\ errorLogged = 0

\* C4 as stated: every request whose method and path match no registered
\* route is answered 404 "<P> not found", without the error handler running
\* and without an error being logged.
EveryUnmatchedRequestNotFound == (res.sent /\ Unmatched) => NotFoundResponse

\* C4 as amended: the same, for the unmatched requests that reach the end of
\* the route table: those the cross-origin stage does not answer itself (it
\* answers every OPTIONS request) and for which no earlier stage raised an
\* error (body parsing).
UnmatchedRequestReachingEndNotFound ==
    (res.sent /\ Unmatched /\ req.method # "OPTIONS" /\ req.bodyOK)
        => (NotFoundResponse /\ res.by = "notFound")

UnmatchedNotFoundWitness ==
    /\ res.sent
    /\ req.method = "POST"
    /\ req.originalUrl = "/nope?x=1"
    /\ req.bodyOK
    /\ res.by = "notFound"

BootstrapOrder ==
    <<"Idle", "SecurityConfigured", "PipelineConfigured", "RoutesBound",
      "ErrorBoundaryBound", "GatewayStarting", "Listening">>

AllStages ==
    {"cookieSession", "hpp", "helmet", "cors", "compression", "json",
     "urlencoded", "routes", "notFound", "errorHandler"}

\* C5: the bootstrap states are entered in the order Idle, SecurityConfigured,
\* PipelineConfigured, RoutesBound, ErrorBoundaryBound, GatewayStarting,
\* Listening, none skipped or entered twice (Failed alone may replace
\* Listening); listen is called at most once, on port 5000, and only with
\* every stage registered, both connections made and the adapter attached.
BootstrapSequence ==
    /\ \/ IsPrefix(history, BootstrapOrder)
       \/ history = SubSeq(BootstrapOrder, 1, 6) \o <<"Failed">>
    /\ state = history[Len(history)]
    /\ listenCalls <= 1
    /\ (listenCalls = 1) <=> (state = "Listening")
    /\ (listenCalls = 1) =>
          /\ port = 5000
          /\ Range(stack) = AllStages
          /\ Len(stack) = 10
          /\ BothConnected
          /\ adapter

ListeningWitness == state = "Listening" /\ bound = "bound" /\ listenCalls = 1

\* C6: once either connect() has failed, the bootstrap is in Failed or about
\* to enter it; the error is logged exactly once on entering Failed, listen
\* is never called, connect() was called once per connection and not again,
\* and no error is left unhandled.
BrokerFailureEndsInFailed ==
    EitherFailed =>
        /\ state \in {"GatewayStarting", "Failed"}
        /\ (state = "GatewayStarting") => ENABLED startServerCatch
        /\ ErrorEntries(log) = (IF state = "Failed" THEN 1 ELSE 0)
        /\ Len(log) = ErrorEntries(log)
        /\ listenCalls = 0
        /\ bound = "none"
        /\ ~adapter
        /\ connectCalls = [pub |-> 1, sub |-> 1]
        /\ unhandled = {}

BrokerFailureWitness ==
    /\ state = "Failed"
    /\ client.pub = "connected"
    /\ client.sub = "failed"

\* C7 as stated: a failed bind is logged by the bootstrap as an error and
\* does not surface as an unhandled error.
BindFailureLoggedAndHandled ==
    (bound = "error") => (ErrorEntries(log) >= 1 /\ unhandled = {})

\* C7 as amended: a failed bind is not caught by startServer: nothing is
\* logged as an error, the bootstrap stays in Listening and never enters
\* Failed, and the failure surfaces as an unhandled error of the server.
BindFailureUnhandled ==
    (bound = "error") =>
        /\ ErrorEntries(log) = 0
        /\ "listen failed" \in unhandled
        /\ state = "Listening"
        /\ "Failed" \notin Range(history)

BindFailureWitness == bound = "error" /\ listenCalls = 1

\* C9: the session credential is named 'session', has exactly two signing
\* keys and a max age of 7 days in milliseconds, and is secure unless
\* NODE_ENV is 'development'.
SessionCredentialConfig ==
    (state # "Idle") =>
        /\ sessionOptions.name = "session"
        /\ Len(sessionOptions.keys) = 2
        /\ sessionOptions.maxAge = 7 * 24 * 60 * 60 * 1000
        /\ sessionOptions.secure = (nodeEnv # "development")
        /\ (nodeEnv = "<unset>") => sessionOptions.secure

SessionCredentialWitness ==
    /\ state = "SecurityConfigured"
    /\ nodeEnv = "development"
    /\ ~sessionOptions.secure

StageOrder ==
    <<"cookieSession", "hpp", "helmet", "cors", "compression", "json",
      "urlencoded", "routes", "notFound", "errorHandler", "finalhandler">>

Rank(n) == CHOOSE i \in 1..Len(StageOrder) : StageOrder[i] = n

\* C10: the stages that run for a request run in the order session,
\* parameter-pollution guard, header hardening, cross-origin policy,
\* compression, body parsing, route dispatch, not-found handler, error
\* handler; route dispatch and the not-found handler run only after all seven
\* earlier stages; a request answered by an earlier stage never reaches route
\* dispatch; an error raised in route dispatch reaches the error handler
\* without the not-found handler running.
PipelineOrder ==
    /\ \A i, j \in 1..Len(visited) :
          i < j => Rank(visited[i]) < Rank(visited[j])
    /\ \A i \in 1..Len(visited) :
          Rank(visited[i]) <= 9 =>
             \A k \in 1..7 : k < Rank(visited[i]) => StageOrder[k] \in Range(visited)
    /\ (res.sent /\ res.by \in {"cookieSession", "hpp", "helmet", "cors",
                                "compression", "json", "urlencoded"})
          => "routes" \notin Range(visited)
    /\ ("routes" \in Range(visited) /\ raised # NoErr)
          => /\ "notFound" \notin Range(visited)
             /\ res.sent => "errorHandler" \in Range(visited)

PipelineOrderWitness ==
    /\ res.sent
    /\ visited = <<"cookieSession", "hpp", "helmet", "cors", "compression",
                   "json", "urlencoded", "routes", "errorHandler">>

====
